---- MODULE Spec2Model ----
(***************************************************************************)
(* A model of libbpf-cargo's BTF-to-Rust definition generator              *)
(* (libbpf-cargo/src/gen/{btf,visit,definition}.rs).                       *)
(*                                                                         *)
(* The state is one generation session: the immutable type graph `btf`,    *)
(* the caller's visited-set `processed`, the registry `anon_types`, and    *)
(* the position of the running `type_definition` call (its worklist        *)
(* `dependents` and the text `definition` composed so far).  Emitted text  *)
(* is kept as a sequence of definition blocks whose strings are built the  *)
(* way the format! calls build them.                                       *)
(***************************************************************************)
EXTENDS Integers, Sequences, FiniteSets, TLC

VARIABLES
    btf,          \* the type graph: type id -> node (immutable in a session)
    processed,    \* HashSet<TypeId> handed to every type_definition call
    anon_types,   \* AnonTypes.types: type id -> anonymous number
    pc,           \* "idle" | "walking" | "panicked"
    root,         \* the root of the running (or last) type_definition call
    dependents,   \* visit_type_hierarchy's worklist
    definition,   \* DefinitionVisitor.definition of the running call
    result,       \* what the last finished call returned
    out,          \* every block returned to the caller in an Ok text
    returned,     \* type id -> number of Ok texts holding its definition
    emit_count,   \* type id -> number of times its definition was written
    scan_count,   \* type id -> number of times its members were scanned
    requests,     \* the anonymous ids in the order of their first request
    discovered,   \* this call: every id put on the worklist, in order
    popped,       \* this call: how many worklist entries were taken
    emitted,      \* this call: the ids whose definition was written, in order
    processed0,   \* `processed` when the running (or last) call began
    anon0         \* `anon_types` when the running (or last) call began

vars == <<btf, processed, anon_types, pc, root, dependents, definition, result,
          out, returned, emit_count, scan_count, requests, discovered, popped,
          emitted, processed0, anon0>>

----------------------------------------------------------------------------
(* The type graph.  A node carries every attribute any kind uses; a name   *)
(* of "" is an absent name (BTF name offset 0).                            *)

Kinds == {"Void", "Int", "Ptr", "Array", "Struct", "Union", "Enum", "Fwd",
          "Typedef", "Volatile", "Const", "Restrict", "Func", "FuncProto",
          "Var", "DataSec", "Float", "DeclTag", "TypeTag", "Enum64"}

Node(k, n) ==
    [kind |-> k, name |-> n, size |-> 0, bits |-> 0, enc |-> "none", ref |-> 0,
     nelems |-> 0, members |-> <<>>, values |-> <<>>, vars |-> <<>>,
     linkage |-> "global"]

MkVoid == Node("Void", "")
MkInt(n, b, e) == [Node("Int", n) EXCEPT !.bits = b, !.enc = e]
MkFloat(n, s) == [Node("Float", n) EXCEPT !.size = s]
MkPtr(t) == [Node("Ptr", "") EXCEPT !.ref = t]
MkArray(t, c) == [Node("Array", "") EXCEPT !.ref = t, !.nelems = c]
MkTypedef(n, t) == [Node("Typedef", n) EXCEPT !.ref = t]
MkConst(t) == [Node("Const", "") EXCEPT !.ref = t]
MkFwd(n) == Node("Fwd", n)
MkStruct(n, s, ms) == [Node("Struct", n) EXCEPT !.size = s, !.members = ms]
MkUnion(n, s, ms) == [Node("Union", n) EXCEPT !.size = s, !.members = ms]
MkEnum(n, s, vs) == [Node("Enum", n) EXCEPT !.size = s, !.values = vs]
MkEnum64(n, s, vs) == [Node("Enum64", n) EXCEPT !.size = s, !.values = vs]
MkVar(n, t, l) == [Node("Var", n) EXCEPT !.ref = t, !.linkage = l]
MkDataSec(n, s, vs) == [Node("DataSec", n) EXCEPT !.size = s, !.vars = vs]

\* MemberAttr::Normal { offset } (offset in bits)
Normal(n, t, off) == [name |-> n, ty |-> t, bitfield |-> FALSE, offset |-> off, width |-> 0]
\* MemberAttr::BitField { size, offset }
BitField(n, t, off, w) == [name |-> n, ty |-> t, bitfield |-> TRUE, offset |-> off, width |-> w]
EnumValue(n, v) == [name |-> n, value |-> v]
VarSecInfo(t, off, s) == [ty |-> t, offset |-> off, size |-> s]

Ids(g) == DOMAIN g

Min(a, b) == IF a < b THEN a ELSE b
Max(a, b) == IF a < b THEN b ELSE a

\* Result values of the fallible functions.
Ok(v) == [st |-> "ok", val |-> v]
Err(m) == [st |-> "err", val |-> m]
Panic(m) == [st |-> "panic", val |-> m]

----------------------------------------------------------------------------
(* libbpf_rs::btf queries used by the generator.                           *)

PtrSize == 8

IsMod(k) == k \in {"Volatile", "Const", "Restrict", "TypeTag"}

RECURSIVE SkipModsAndTypedefs(_, _)
SkipModsAndTypedefs(g, t) ==
    IF IsMod(g[t].kind) \/ g[t].kind = "Typedef"
    THEN SkipModsAndTypedefs(g, g[t].ref)
    ELSE t

\* BtfType::next_type: the referenced type of a reference kind, else None (-1).
LibNextType(g, t) ==
    IF g[t].kind \in {"Ptr", "Typedef", "Volatile", "Const", "Restrict", "Func",
                      "FuncProto", "Var", "DeclTag", "TypeTag"}
    THEN g[t].ref
    ELSE -1

RECURSIVE MaxMemberAlign(_, _, _)
RECURSIVE Alignment(_, _)
\* BtfType::alignment: 0 stands for Err.
Alignment(g, t0) ==
    LET t == SkipModsAndTypedefs(g, t0)
        k == g[t].kind
    IN  CASE k = "Int" -> Min(PtrSize, (g[t].bits + 7) \div 8)
          [] k = "Ptr" -> PtrSize
          [] k = "Array" -> Alignment(g, g[t].ref)
          [] k \in {"Struct", "Union"} -> MaxMemberAlign(g, g[t].members, 1)
          [] k \in {"Enum", "Enum64", "Float"} -> Min(PtrSize, g[t].size)
          [] k = "Var" -> Alignment(g, g[t].ref)
          [] k = "DataSec" -> PtrSize
          [] OTHER -> 0

MaxMemberAlign(g, ms, i) ==
    IF i > Len(ms) THEN 1
    ELSE LET a == Alignment(g, ms[i].ty)
             r == MaxMemberAlign(g, ms, i + 1)
         IN  IF a = 0 \/ r = 0 THEN 0 ELSE Max(a, r)

----------------------------------------------------------------------------
(* libbpf-cargo/src/gen/btf.rs                                             *)

ANON_PREFIX == "__anon_"

\* is_unsafe with the Int arm forgotten: a boolean passes for safe.
is_unsafe_enums(g, t0) ==
    LET t == SkipModsAndTypedefs(g, t0)
    IN  g[t].kind \in {"Enum", "Enum64"}

\* is_unsafe: not valid for every bit pattern.
is_unsafe(g, t0) ==
    LET t == SkipModsAndTypedefs(g, t0)
    IN  CASE g[t].kind = "Int" -> g[t].enc = "bool"
          [] g[t].kind \in {"Enum", "Enum64"} -> TRUE
          [] OTHER -> FALSE

RECURSIVE MembersMisalignedAll(_, _, _)
\* The member loop without the match on MemberAttr::Normal: bitfield members
\* are tested like the others.
MembersMisalignedAll(g, ms, i) ==
    IF i > Len(ms) THEN Ok(FALSE)
    ELSE LET align == Alignment(g, ms[i].ty)
         IN  IF align = 0 THEN Err("Cannot get alignment of type")
             ELSE IF ms[i].offset % (align * 8) # 0 THEN Ok(TRUE)
             ELSE MembersMisalignedAll(g, ms, i + 1)

RECURSIVE MembersMisaligned(_, _, _)
\* The member loop of is_struct_packed: Ok(TRUE) at the first misaligned
\* Normal member, Err when a member's alignment is undefined.
MembersMisaligned(g, ms, i) ==
    IF i > Len(ms) THEN Ok(FALSE)
    ELSE LET align == Alignment(g, ms[i].ty)
         IN  IF align = 0 THEN Err("Cannot get alignment of type")
             ELSE IF ~ms[i].bitfield /\ ms[i].offset % (align * 8) # 0 THEN Ok(TRUE)
             ELSE MembersMisaligned(g, ms, i + 1)

is_struct_packed(g, t) ==
    IF g[t].kind # "Struct" THEN Ok(FALSE)
    ELSE LET align == Alignment(g, t)
         IN  IF align = 0 THEN Err("Cannot get alignment of type")
             ELSE IF g[t].size % align # 0 THEN Ok(TRUE)
             ELSE MembersMisaligned(g, g[t].members, 1)

\* required_padding without the cap of the alignment at 4 bytes.
required_padding_natural(g, current_offset, required_offset, ty, packed) ==
    IF ~(current_offset <= required_offset)
    THEN Err("current offset ahead of required offset")
    ELSE LET a == Alignment(g, ty)
             align == IF packed THEN 1 ELSE a
         IN  IF ~packed /\ a = 0 THEN Err("Cannot get alignment of type")
             ELSE LET aligned_offset == ((current_offset + align - 1) \div align) * align
                  IN  IF aligned_offset = required_offset THEN Ok(0)
                      ELSE Ok(required_offset - current_offset)

required_padding(g, current_offset, required_offset, ty, packed) ==
    IF ~(current_offset <= required_offset)
    THEN Err("current offset ahead of required offset")
    ELSE LET a == Alignment(g, ty)
             align == IF packed THEN 1 ELSE IF a > 4 THEN 4 ELSE a
         IN  IF ~packed /\ a = 0 THEN Err("Cannot get alignment of type")
             ELSE LET aligned_offset == ((current_offset + align - 1) \div align) * align
                  IN  IF aligned_offset = required_offset THEN Ok(0)
                      ELSE Ok(required_offset - current_offset)

\* type_name_or_anon with `insert` in place of `entry(..).or_insert(..)`: a
\* repeated request renumbers the type.
type_name_or_anon_insert(g, anon, t) ==
    IF g[t].name = ""
    THEN LET anon_table == anon.types
             len == Cardinality(DOMAIN anon_table) + 1
             table == (t :> len) @@ anon_table
             name == ANON_PREFIX \o ToString(table[t])
         IN  [name |-> name,
              anon |-> [types |-> table,
                        log |-> Append(anon.log, [id |-> t, name |-> name])]]
    ELSE [name |-> g[t].name, anon |-> anon]

\* AnonTypes::type_name_or_anon: the name, and the registry it leaves behind.
\* The registry is the table (`types`) and, beside it, the log of every
\* request for an anonymous type with the name it was answered with.
type_name_or_anon(g, anon, t) ==
    IF g[t].name = ""
    THEN LET anon_table == anon.types
             len == Cardinality(DOMAIN anon_table) + 1
             table == IF t \in DOMAIN anon_table THEN anon_table ELSE anon_table @@ (t :> len)
             name == ANON_PREFIX \o ToString(table[t])
         IN  [name |-> name,
              anon |-> [types |-> table,
                        log |-> Append(anon.log, [id |-> t, name |-> name])]]
    ELSE [name |-> g[t].name, anon |-> anon]

\* A fallible result that also carries the registry it leaves behind.
R(st, val, anon) == [st |-> st, val |-> val, anon |-> anon]

IntWidth(bits) ==
    LET bytes == (bits + 7) \div 8
    IN  IF bytes \in {1, 2, 4, 8, 16} THEN ToString(bytes * 8) ELSE ""

RECURSIVE type_declaration(_, _, _)
type_declaration(g, anon, t0) ==
    LET t == SkipModsAndTypedefs(g, t0)
        k == g[t].kind
    IN  CASE k = "Void" -> R("ok", "std::ffi::c_void", anon)
          [] k = "Int" ->
                LET width == IntWidth(g[t].bits)
                IN  IF width = "" THEN R("err", "Invalid integer width", anon)
                    ELSE CASE g[t].enc = "signed" -> R("ok", "i" \o width, anon)
                           [] g[t].enc = "bool" ->
                                IF g[t].bits = 8 THEN R("ok", "bool", anon)
                                ELSE R("panic", "assertion failed: t.bits == size_of::<bool>() * 8", anon)
                           [] OTHER -> R("ok", "u" \o width, anon)
          [] k = "Float" ->
                CASE g[t].size = 4 -> R("ok", "f32", anon)
                  [] g[t].size = 8 -> R("ok", "f64", anon)
                  [] g[t].size \in {2, 12, 16} -> R("err", "Unsupported float width", anon)
                  [] OTHER -> R("err", "Invalid float width", anon)
          [] k = "Ptr" ->
                LET p == type_declaration(g, anon, g[t].ref)
                IN  IF p.st # "ok" THEN p ELSE R("ok", "*mut " \o p.val, p.anon)
          [] k = "Array" ->
                LET v == type_declaration(g, anon, g[t].ref)
                IN  IF v.st # "ok" THEN v
                    ELSE R("ok", "[" \o v.val \o "; " \o ToString(g[t].nelems) \o "]", v.anon)
          [] k \in {"Struct", "Union", "Enum", "Enum64"} ->
                LET n == type_name_or_anon(g, anon, t)
                IN  R("ok", n.name, n.anon)
          [] k \in {"Fwd", "Func", "FuncProto"} -> R("ok", "std::ffi::c_void", anon)
          [] k = "Var" -> type_declaration(g, anon, g[t].ref)
          [] OTHER -> R("err", "Invalid type", anon)

RECURSIVE type_default(_, _, _)
type_default(g, anon, t0) ==
    LET t == SkipModsAndTypedefs(g, t0)
        k == g[t].kind
    IN  CASE k \in {"Int", "Float"} ->
                LET d == type_declaration(g, anon, t)
                IN  IF d.st # "ok" THEN d ELSE R("ok", d.val \o "::default()", d.anon)
          [] k = "Ptr" -> R("ok", "std::ptr::null_mut()", anon)
          [] k = "Array" ->
                LET d == type_default(g, anon, g[t].ref)
                IN  IF d.st # "ok" THEN d
                    ELSE R("ok", "[" \o d.val \o "; " \o ToString(g[t].nelems) \o "]", d.anon)
          [] k \in {"Struct", "Union", "Enum", "Enum64"} ->
                LET n == type_name_or_anon(g, anon, t)
                IN  R("ok", n.name \o "::default()", n.anon)
          [] k = "Var" ->
                LET d == type_declaration(g, anon, g[t].ref)
                IN  IF d.st # "ok" THEN d ELSE R("ok", d.val \o "::default()", d.anon)
          [] OTHER -> R("err", "Invalid type", anon)

RECURSIVE size_of_type(_, _)
size_of_type(g, t0) ==
    LET t == SkipModsAndTypedefs(g, t0)
        k == g[t].kind
    IN  CASE k = "Int" -> Ok((g[t].bits + 7) \div 8)
          [] k = "Ptr" -> Ok(PtrSize)
          [] k = "Array" ->
                LET e == size_of_type(g, g[t].ref)
                IN  IF e.st # "ok" THEN e ELSE Ok(g[t].nelems * e.val)
          [] k \in {"Struct", "Union", "Enum", "Enum64", "DataSec", "Float"} -> Ok(g[t].size)
          [] k = "Var" -> size_of_type(g, g[t].ref)
          [] OTHER -> Err("Cannot get size of type_id")

reserved ==
    {"Self", "abstract", "as", "async", "await", "become", "box", "crate", "dyn", "enum",
     "final", "fn", "impl", "in", "let", "loop", "macro", "match", "mod", "move", "mut",
     "override", "priv", "pub", "ref", "self", "super", "trait", "try", "type", "typeof",
     "unsafe", "unsized", "use", "virtual", "where", "yield"}

escape_reserved_keyword(identifier) ==
    IF identifier \in reserved THEN "r#" \o identifier ELSE identifier

\* is_terminal with the Var and Typedef arms forgotten.
is_terminal_short(g, t) ==
    g[t].kind \in {"Void", "Int", "Float", "Ptr", "Array", "Fwd", "Volatile",
                   "Const", "Restrict", "Func", "FuncProto", "DeclTag", "TypeTag"}

\* The closure is_terminal of GenBtf::type_definition.
is_terminal(g, t) ==
    g[t].kind \in {"Void", "Int", "Float", "Ptr", "Array", "Fwd", "Typedef", "Volatile",
                   "Const", "Restrict", "Func", "FuncProto", "Var", "DeclTag", "TypeTag"}

RECURSIVE next_type_no_array(_, _)
\* next_type without the Array arm: an array ends the search.
next_type_no_array(g, t) ==
    CASE g[t].kind \in {"Struct", "Union", "Enum", "Enum64", "DataSec"} -> t
      [] OTHER -> IF LibNextType(g, t) = -1 THEN -1
                  ELSE next_type_no_array(g, LibNextType(g, t))

RECURSIVE next_type_no_ptr(_, _)
\* next_type that gives up at a pointer instead of following it.
next_type_no_ptr(g, t) ==
    CASE g[t].kind \in {"Struct", "Union", "Enum", "Enum64", "DataSec"} -> t
      [] g[t].kind = "Array" -> next_type_no_ptr(g, g[t].ref)
      [] g[t].kind = "Ptr" -> -1
      [] OTHER -> IF LibNextType(g, t) = -1 THEN -1
                  ELSE next_type_no_ptr(g, LibNextType(g, t))

RECURSIVE next_type(_, _)
\* next_type: the first structured type on the reference chain, or None (-1).
next_type(g, t) ==
    CASE g[t].kind \in {"Struct", "Union", "Enum", "Enum64", "DataSec"} -> t
      [] g[t].kind = "Array" -> next_type(g, g[t].ref)
      [] OTHER -> IF LibNextType(g, t) = -1 THEN -1 ELSE next_type(g, LibNextType(g, t))

----------------------------------------------------------------------------
(* libbpf-cargo/src/gen/definition.rs                                      *)
(*                                                                         *)
(* A definition block is what one visit_* call writes.  A line of its body *)
(* keeps, beside the text written (attr, name, ty), the size and alignment *)
(* of the type it declares and the member it came from (src, 0 for         *)
(* padding).                                                               *)

Line(attr, name, ty, sz, al, src) ==
    [attr |-> attr, name |-> name, ty |-> ty, sz |-> sz, al |-> al, src |-> src]

PadLine(attr, offset, padding) ==
    Line(attr, "__pad_" \o ToString(offset), "[u8; " \o ToString(padding) \o "]", padding, 1, 0)

\* The initializer of a padding field named after the end of the gap.
PadInitEnd(offset, padding) ==
    [name |-> "__pad_" \o ToString(offset + padding),
     expr |-> "[u8::default(); " \o ToString(padding) \o "]"]

PadInit(offset, padding) ==
    [name |-> "__pad_" \o ToString(offset),
     expr |-> "[u8::default(); " \o ToString(padding) \o "]"]

Block(id, kind, derive, repr, name, fields, impl_default, inits, impl_debug) ==
    [id |-> id, kind |-> kind, derive |-> derive, repr |-> repr, name |-> name,
     fields |-> fields, impl_default |-> impl_default, inits |-> inits,
     impl_debug |-> impl_debug]

NoBlock == Block(-1, "", "", "", "", <<>>, FALSE, <<>>, FALSE)

\* What a visit_* call hands back: its Result, the block written, the
\* dependents pushed, the registry left behind.
Visit(st, val, block, deps, anon) ==
    [st |-> st, val |-> val, block |-> block, deps |-> deps, anon |-> anon]

StartsWithDot(s) == Len(s) >= 1 /\ SubSeq(s, 1, 1) = "."
RemoveFirst(s) == IF Len(s) <= 1 THEN "" ELSE SubSeq(s, 2, Len(s))

\* One iteration of visit_datasec's loop over the section's variables.
DatasecVar(g, v, i, acc) ==
    IF g[v.ty].kind # "Var"
    THEN [acc EXCEPT !.st = "err", !.val = "BTF is invalid! Datasec var does not point to a var"]
    ELSE IF g[v.ty].linkage = "static" THEN acc
    ELSE LET nt == next_type(g, v.ty)
             deps == IF nt # -1 THEN Append(acc.deps, nt) ELSE acc.deps
             padding == required_padding(g, acc.offset, v.offset, v.ty, FALSE)
         IN  IF padding.st # "ok"
             THEN [acc EXCEPT !.st = "err", !.val = padding.val, !.deps = deps]
             ELSE LET fields == IF padding.val # 0
                                THEN Append(acc.fields, PadLine("", acc.offset, padding.val))
                                ELSE acc.fields
                      offset == v.offset + v.size
                  IN  IF g[v.ty].name = ""
                      THEN [acc EXCEPT !.st = "panic", !.deps = deps, !.offset = offset,
                                       !.val = "called Option::unwrap() on a None value"]
                      ELSE LET d == type_declaration(g, acc.anon, v.ty)
                           IN  IF d.st # "ok"
                               THEN [acc EXCEPT !.st = d.st, !.val = d.val, !.deps = deps,
                                                !.offset = offset, !.anon = d.anon]
                               ELSE [acc EXCEPT
                                       !.deps = deps, !.offset = offset, !.anon = d.anon,
                                       !.fields = Append(fields,
                                           Line("pub", g[v.ty].name, d.val, v.size,
                                                Alignment(g, v.ty), i))]

RECURSIVE DatasecLoop(_, _, _, _)
DatasecLoop(g, vs, i, acc) ==
    IF i > Len(vs) \/ acc.st # "ok" THEN acc
    ELSE CHOOSE r \in {DatasecLoop(g, vs, i + 1, a) : a \in {DatasecVar(g, vs[i], i, acc)}} : TRUE

\* visit_datasec once the loop has ended in `acc`.
DatasecEnd(g, t, sec_name, acc) ==
    IF acc.st # "ok" THEN Visit(acc.st, acc.val, NoBlock, acc.deps, acc.anon)
    ELSE Visit("ok", "",
               Block(t, "struct", "#[derive(Debug, Copy, Clone)]", "#[repr(C)]",
                     sec_name, acc.fields, FALSE, <<>>, FALSE),
               acc.deps, acc.anon)

\* visit_datasec, after the visited check.
visit_datasec(g, anon, t) ==
    IF g[t].name = "" THEN Visit("err", "Datasec name is empty", NoBlock, <<>>, anon)
    ELSE IF ~StartsWithDot(g[t].name)
    THEN Visit("err", "Datasec name is invalid", NoBlock, <<>>, anon)
    ELSE CHOOSE v \in {DatasecEnd(g, t, RemoveFirst(g[t].name), acc) :
                        acc \in {DatasecLoop(g, g[t].vars, 1,
                                    [st |-> "ok", val |-> "", offset |-> 0, fields |-> <<>>,
                                     deps |-> <<>>, anon |-> anon])}} : TRUE

\* visit_enum, after the visited check.
EnumLines(vs) ==
    [i \in 1..Len(vs) |->
        Line(IF i = 1 THEN "#[default]" ELSE "", vs[i].name, ToString(vs[i].value), 0, 0, i)]

\* Signedness read off the first enumerator only.
EnumSignedFirst(vs) == IF Len(vs) >= 1 /\ vs[1].value < 0 THEN "i" ELSE "u"
\* The signedness loop of visit_enum: "i" at the first negative value.
EnumSigned(vs) == IF \E i \in 1..Len(vs) : vs[i].value < 0 THEN "i" ELSE "u"

visit_enum(g, anon, t) ==
    LET repr_size == CASE g[t].size = 1 -> "8"
                       [] g[t].size = 2 -> "16"
                       [] g[t].size = 4 -> "32"
                       [] g[t].size = 8 -> "64"
                       [] g[t].size = 16 -> "128"
                       [] OTHER -> ""
        signed == EnumSigned(g[t].values)
        n == type_name_or_anon(g, anon, t)
    IN  IF repr_size = "" THEN Visit("err", "Invalid enum size", NoBlock, <<>>, anon)
        ELSE IF \E i \in 1..Len(g[t].values) : g[t].values[i].name = ""
        THEN Visit("panic", "called Option::unwrap() on a None value", NoBlock, <<>>, n.anon)
        ELSE Visit("ok", "",
                   Block(t, "enum", "#[derive(Debug, Copy, Clone, Default, PartialEq, Eq)]",
                         "#[repr(" \o signed \o repr_size \o ")]", n.name,
                         EnumLines(g[t].values), FALSE, <<>>, FALSE),
                   <<>>, n.anon)

\* The tests on a struct's field with the pointer test forgotten.
forces_impl_default_no_ptr(g, field_ty) ==
    \/ (g[field_ty].kind = "Array" /\ g[field_ty].nelems > 32)
    \/ is_unsafe(g, field_ty)

\* The tests that set gen_impl_default for a field of a struct: an array of
\* more than 32 elements, a pointer, an unsafe type.
forces_impl_default(g, field_ty) ==
    \/ (g[field_ty].kind = "Array" /\ g[field_ty].nelems > 32)
    \/ (g[field_ty].kind = "Ptr" \/ is_unsafe(g, field_ty))

\* One iteration of visit_composite's loop over the members.
CompositeMember(g, t, packed, m, i, acc) ==
    IF m.bitfield THEN acc
    ELSE
    LET is_struct == g[t].kind = "Struct"
        field_ty == SkipModsAndTypedefs(g, m.ty)
        nt == next_type(g, field_ty)
        deps == IF nt # -1 THEN Append(acc.deps, nt) ELSE acc.deps
        fname == IF m.name # ""
                 THEN [name |-> escape_reserved_keyword(m.name), anon |-> acc.anon]
                 ELSE type_name_or_anon(g, acc.anon, field_ty)
        padding == IF is_struct
                   THEN required_padding(g, acc.offset, m.offset \div 8, m.ty, packed)
                   ELSE Ok(0)
        padded == padding.st = "ok" /\ padding.val # 0
        agg1 == IF padded THEN Append(acc.agg_content, PadLine("pub", acc.offset, padding.val))
                ELSE acc.agg_content
        def1 == IF padded THEN Append(acc.impl_default, PadInit(acc.offset, padding.val))
                ELSE acc.impl_default
        gen == acc.gen_impl_default \/ (is_struct /\ forces_impl_default(g, field_ty))
        dflt == type_default(g, fname.anon, field_ty)
        def2 == IF dflt.st = "ok"
                THEN Append(def1,
                        [name |-> fname.name,
                         expr |-> IF is_unsafe(g, field_ty)
                                  THEN "std::mem::MaybeUninit::new(" \o dflt.val \o ")"
                                  ELSE dflt.val])
                ELSE def1
        size == size_of_type(g, field_ty)
        decl == type_declaration(g, dflt.anon, field_ty)
        field_ty_str == IF is_unsafe(g, field_ty)
                        THEN "std::mem::MaybeUninit<" \o decl.val \o ">"
                        ELSE decl.val
        base == [acc EXCEPT !.deps = deps]
    IN  IF padding.st # "ok"
        THEN [base EXCEPT !.st = "err", !.val = padding.val, !.anon = fname.anon]
        ELSE IF dflt.st = "panic"
        THEN [base EXCEPT !.st = "panic", !.val = dflt.val, !.anon = dflt.anon]
        ELSE IF dflt.st = "err" /\ (gen \/ ~is_struct)
        THEN [base EXCEPT !.st = "err", !.anon = dflt.anon,
                          !.val = "Could not construct a necessary Default Impl"]
        ELSE IF size.st # "ok"
        THEN [base EXCEPT !.st = "err", !.val = size.val, !.anon = dflt.anon]
        ELSE IF decl.st # "ok"
        THEN [base EXCEPT !.st = decl.st, !.val = decl.val, !.anon = decl.anon]
        ELSE [base EXCEPT
                !.anon = decl.anon,
                !.gen_impl_default = gen,
                !.impl_default = def2,
                !.offset = (m.offset \div 8) + size.val,
                !.agg_content = Append(agg1,
                    Line("pub", fname.name, field_ty_str, size.val,
                         Alignment(g, field_ty), i))]

RECURSIVE CompositeLoop(_, _, _, _, _, _)
CompositeLoop(g, t, packed, ms, i, acc) ==
    IF i > Len(ms) \/ acc.st # "ok" THEN acc
    ELSE CHOOSE r \in {CompositeLoop(g, t, packed, ms, i + 1, a) :
                          a \in {CompositeMember(g, t, packed, ms[i], i, acc)}} : TRUE

\* visit_composite once the member loop has ended in `acc`.
CompositeEnd(g, t, packed, acc) ==
    LET is_struct == g[t].kind = "Struct"
        tail == IF is_struct
                THEN required_padding(g, acc.offset, g[t].size, t, packed)
                ELSE Ok(0)
        padded == tail.st = "ok" /\ tail.val # 0
        agg_content == IF padded
                       THEN Append(acc.agg_content, PadLine("pub", acc.offset, tail.val))
                       ELSE acc.agg_content
        impl_default == IF padded
                        THEN Append(acc.impl_default, PadInit(acc.offset, tail.val))
                        ELSE acc.impl_default
        derive == IF ~acc.gen_impl_default /\ is_struct
                  THEN "#[derive(Debug, Default, Copy, Clone)]"
                  ELSE IF is_struct THEN "#[derive(Debug, Copy, Clone)]"
                  ELSE "#[derive(Copy, Clone)]"
        repr == IF packed THEN "#[repr(C, packed)]" ELSE "#[repr(C)]"
        n == type_name_or_anon(g, acc.anon, t)
    IN  IF acc.st # "ok" THEN Visit(acc.st, acc.val, NoBlock, acc.deps, acc.anon)
        ELSE IF tail.st # "ok" THEN Visit("err", tail.val, NoBlock, acc.deps, acc.anon)
        ELSE IF acc.gen_impl_default
        THEN Visit("ok", "",
                   Block(t, "struct", derive, repr, n.name, agg_content,
                         TRUE, impl_default, FALSE),
                   acc.deps, n.anon)
        ELSE IF ~is_struct
        THEN IF impl_default = <<>>
             THEN Visit("panic", "index out of bounds: the len is 0 but the index is 0",
                        NoBlock, acc.deps, n.anon)
             ELSE Visit("ok", "",
                        Block(t, "union", derive, repr, n.name, agg_content,
                              TRUE, <<impl_default[1]>>, TRUE),
                        acc.deps, n.anon)
        ELSE Visit("ok", "",
                   Block(t, "struct", derive, repr, n.name, agg_content,
                         FALSE, <<>>, FALSE),
                   acc.deps, n.anon)

\* visit_composite, after the visited check.
visit_composite(g, anon, t) ==
    LET packed == is_struct_packed(g, t)
    IN  IF packed.st # "ok" THEN Visit("err", packed.val, NoBlock, <<>>, anon)
        ELSE CHOOSE v \in {CompositeEnd(g, t, packed.val, acc) :
                            acc \in {CompositeLoop(g, t, packed.val, g[t].members, 1,
                                        [st |-> "ok", val |-> "", offset |-> 0,
                                         agg_content |-> <<>>, impl_default |-> <<>>,
                                         gen_impl_default |-> FALSE, deps |-> <<>>,
                                         anon |-> anon])}} : TRUE

----------------------------------------------------------------------------
(* The session.  GenBtf::type_definition (btf.rs) runs visit_type_hierarchy *)
(* (visit.rs) over a DefinitionVisitor; one step of the walk's loop is one  *)
(* action.                                                                  *)

Bump(f, t) == [f EXCEPT ![t] = @ + 1]

RECURSIVE BumpAll(_, _, _)
BumpAll(f, blocks, i) ==
    IF i > Len(blocks) THEN f ELSE BumpAll(Bump(f, blocks[i].id), blocks, i + 1)

NoResult == [st |-> "none", val |-> "", text |-> <<>>]

\* type_definition on a terminal root: the ensure! fails.
TypeDefinitionTerminal(ty) ==
    /\ pc = "idle"
    /\ is_terminal(btf, ty)
    /\ root' = ty
    /\ result' = [st |-> "err", val |-> "Tried to print type definition for terminal type",
                  text |-> <<>>]
    /\ discovered' = <<>>
    /\ popped' = 0
    /\ emitted' = <<>>
    /\ processed0' = processed
    /\ anon0' = anon_types
    /\ UNCHANGED <<btf, processed, anon_types, pc, dependents, definition, out, returned,
                   emit_count, scan_count, requests>>

\* type_definition on any other root: the visitor is built and the walk begins
\* with `dependents = vec![ty]`.
TypeDefinitionStart(ty) ==
    /\ pc = "idle"
    /\ ~is_terminal(btf, ty)
    /\ root' = ty
    /\ pc' = "walking"
    /\ dependents' = <<ty>>
    /\ definition' = <<>>
    /\ result' = NoResult
    /\ discovered' = <<ty>>
    /\ popped' = 0
    /\ emitted' = <<>>
    /\ processed0' = processed
    /\ anon0' = anon_types
    /\ UNCHANGED <<btf, processed, anon_types, out, returned, emit_count, scan_count,
                   requests>>

\* `dependents.remove(0)`.
Front(deps) == Head(deps)
Rest(deps) == Tail(deps)
\* Dependents put at the front of the worklist (a depth-first walk).
PushFront(deps, found) == found \o deps
\* `dependents.push(..)` of every dependent a visit found, in order.
Push(deps, found) == deps \o found
\* A visited check that never finds the id (the guard of visit_* dropped).
VisitedInsertAlways(visited, id) == TRUE
\* `self.visited.insert(id)`: TRUE when the id was not yet in the set.
VisitedInsert(visited, id) == id \notin visited

\* The visit found the type in `visited` and returns Ok(()) at once.
Skip ==
    /\ dependents' = Rest(dependents)
    /\ popped' = popped + 1
    /\ UNCHANGED <<btf, processed, anon_types, pc, root, definition, result, out, returned,
                   emit_count, scan_count, requests, discovered, emitted, processed0, anon0>>

\* The visit `v` of the front type `ty`, which was not in `visited`.
Apply(ty, v) ==
    /\ processed' = processed \cup {ty}
    /\ scan_count' = Bump(scan_count, ty)
    /\ anon_types' = v.anon.types
    /\ requests' = v.anon.log
    /\ popped' = popped + 1
    /\ UNCHANGED <<btf, root, out, returned, processed0, anon0>>
    /\ CASE v.st = "ok" ->
              /\ definition' = Append(definition, v.block)
              /\ dependents' = Push(Rest(dependents), v.deps)
              /\ discovered' = discovered \o v.deps
              /\ emitted' = Append(emitted, ty)
              /\ emit_count' = Bump(emit_count, ty)
              /\ UNCHANGED <<pc, result>>
         [] v.st = "err" ->
              \* `?` leaves visit_type_hierarchy and type_definition; the visitor,
              \* and with it the text, is dropped.
              /\ pc' = "idle"
              /\ result' = [st |-> "err", val |-> v.val, text |-> <<>>]
              /\ definition' = <<>>
              /\ dependents' = <<>>
              /\ UNCHANGED <<discovered, emitted, emit_count>>
         [] OTHER ->
              /\ pc' = "panicked"
              /\ result' = [st |-> "panic", val |-> v.val, text |-> <<>>]
              /\ definition' = <<>>
              /\ dependents' = <<>>
              /\ UNCHANGED <<discovered, emitted, emit_count>>

Registry == [types |-> anon_types, log |-> requests]

VisitComposite ==
    /\ pc = "walking"
    /\ dependents # <<>>
    /\ btf[Front(dependents)].kind \in {"Struct", "Union"}
    /\ IF VisitedInsert(processed, Front(dependents))
       THEN \E v \in {visit_composite(btf, Registry, Front(dependents))} :
                Apply(Front(dependents), v)
       ELSE Skip

VisitEnum ==
    /\ pc = "walking"
    /\ dependents # <<>>
    /\ btf[Front(dependents)].kind = "Enum"
    /\ IF VisitedInsert(processed, Front(dependents))
       THEN \E v \in {visit_enum(btf, Registry, Front(dependents))} :
                Apply(Front(dependents), v)
       ELSE Skip

VisitDatasec ==
    /\ pc = "walking"
    /\ dependents # <<>>
    /\ btf[Front(dependents)].kind = "DataSec"
    /\ IF VisitedInsert(processed, Front(dependents))
       THEN \E v \in {visit_datasec(btf, Registry, Front(dependents))} :
                Apply(Front(dependents), v)
       ELSE Skip

\* `_ => bail!("encountered unsupported type")`
VisitUnsupported ==
    /\ pc = "walking"
    /\ dependents # <<>>
    /\ btf[Front(dependents)].kind \notin {"Struct", "Union", "Enum", "DataSec"}
    /\ pc' = "idle"
    /\ result' = [st |-> "err", val |-> "encountered unsupported type", text |-> <<>>]
    /\ definition' = <<>>
    /\ dependents' = <<>>
    /\ popped' = popped + 1
    /\ UNCHANGED <<btf, processed, anon_types, root, out, returned, emit_count, scan_count,
                   requests, discovered, emitted, processed0, anon0>>

\* The worklist is empty: visit_type_hierarchy returns Ok(()) and
\* type_definition returns Ok(visitor.definition).
Return ==
    /\ pc = "walking"
    /\ dependents = <<>>
    /\ pc' = "idle"
    /\ result' = [st |-> "ok", val |-> "", text |-> definition]
    /\ out' = out \cup {definition[i] : i \in 1..Len(definition)}
    /\ returned' = BumpAll(returned, definition, 1)
    /\ definition' = <<>>
    /\ UNCHANGED <<btf, processed, anon_types, root, dependents, emit_count, scan_count,
                   requests, discovered, popped, emitted, processed0, anon0>>

Next ==
    \/ \E ty \in Ids(btf) : TypeDefinitionTerminal(ty)
    \/ \E ty \in Ids(btf) : TypeDefinitionStart(ty)
    \/ VisitComposite
    \/ VisitEnum
    \/ VisitDatasec
    \/ VisitUnsupported
    \/ Return

\* A fresh session over the graph g: GenBtf::from(btf) and an empty HashSet.
Fresh(g) ==
    /\ btf = g
    /\ processed = {}
    /\ anon_types = <<>>
    /\ pc = "idle"
    /\ root = 0
    /\ dependents = <<>>
    /\ definition = <<>>
    /\ result = NoResult
    /\ out = {}
    /\ returned = [t \in Ids(g) |-> 0]
    /\ emit_count = [t \in Ids(g) |-> 0]
    /\ scan_count = [t \in Ids(g) |-> 0]
    /\ requests = <<>>
    /\ discovered = <<>>
    /\ popped = 0
    /\ emitted = <<>>
    /\ processed0 = {}
    /\ anon0 = <<>>

----------------------------------------------------------------------------
(* Type graphs of the sessions.                                            *)

\* Shared dependents, a self-referential pointer, anonymous members, a
\* section with two variables of one struct type and a static variable.
GraphShared ==
    0 :> MkVoid @@
    1 :> MkInt("int", 32, "signed") @@
    2 :> MkInt("char", 8, "char") @@
    3 :> MkInt("_Bool", 8, "bool") @@
    4 :> MkPtr(7) @@
    5 :> MkStruct("Bar", 4, <<Normal("x", 1, 0)>>) @@
    6 :> MkEnum("", 4, <<EnumValue("A", 0), EnumValue("B", 1)>>) @@
    7 :> MkStruct("Foo", 24,
            <<Normal("a", 5, 0), Normal("", 8, 32), Normal("next", 4, 64),
              Normal("e", 6, 128), Normal("c", 14, 160)>>) @@
    8 :> MkUnion("", 4, <<Normal("i", 1, 0), Normal("s", 9, 0)>>) @@
    9 :> MkStruct("", 2, <<Normal("c", 2, 0), Normal("type", 3, 8)>>) @@
    10 :> MkVar("v1", 5, "global") @@
    11 :> MkVar("v2", 5, "global") @@
    12 :> MkVar("hidden", 8, "static") @@
    13 :> MkVar("foo", 7, "global") @@
    14 :> MkTypedef("bar_t", 5) @@
    15 :> MkDataSec(".data", 40,
            <<VarSecInfo(10, 0, 4), VarSecInfo(12, 4, 4), VarSecInfo(13, 8, 24),
              VarSecInfo(11, 32, 4)>>) @@
    16 :> MkEnum64("E64", 8, <<EnumValue("X", 0)>>)

\* Nodes whose emission fails or aborts, below and beside nodes that emit.
GraphFailing ==
    0 :> MkVoid @@
    1 :> MkInt("int", 32, "signed") @@
    2 :> MkFloat("long double", 16) @@
    3 :> MkInt("_Bool", 32, "bool") @@
    4 :> MkStruct("Good", 4, <<Normal("x", 1, 0)>>) @@
    5 :> MkStruct("Broken", 16, <<Normal("ld", 2, 0)>>) @@
    6 :> MkStruct("Outer", 24, <<Normal("g", 4, 0), Normal("h", 5, 64)>>) @@
    7 :> MkStruct("Bad", 8, <<Normal("ok", 4, 0), Normal("flag", 3, 32)>>) @@
    8 :> MkUnion("Empty", 4, <<BitField("bits", 1, 0, 3)>>) @@
    9 :> MkVar("", 1, "global") @@
    10 :> MkDataSec(".bss", 4, <<VarSecInfo(9, 0, 4)>>) @@
    11 :> MkEnum("NoName", 4, <<EnumValue("", 0)>>) @@
    12 :> MkEnum("Nothing", 4, <<>>) @@
    13 :> MkDataSec("nodot", 0, <<>>) @@
    14 :> MkEnum64("E64", 8, <<EnumValue("X", 0)>>) @@
    15 :> MkVar("g", 4, "global") @@
    16 :> MkDataSec(".data", 4, <<VarSecInfo(15, 0, 4)>>)

SessionGraphs == {GraphShared, GraphFailing}

Init == \E g \in SessionGraphs : Fresh(g)

Spec == Init /\ [][Next]_vars

----------------------------------------------------------------------------
(* Sessions over every enum within the bounds: an enum E of each size and  *)
(* each sequence of values, held by a struct that a section variable has.  *)

MaxEnumValues == 2

EnumSizes == {1, 2, 3, 4, 8, 16}
EnumValueChoices == {-1, 0, 1}
EnumNames == <<"A", "B", "C", "D">>

EnumValueSeqs ==
    UNION {[1..n -> EnumValueChoices] : n \in 0..MaxEnumValues}

GraphEnum(size, vals) ==
    0 :> MkVoid @@
    1 :> MkInt("int", 32, "signed") @@
    2 :> MkEnum("E", size, [i \in 1..Len(vals) |-> EnumValue(EnumNames[i], vals[i])]) @@
    3 :> MkStruct("Holder", 8, <<Normal("n", 1, 0), Normal("e", 2, 32)>>) @@
    4 :> MkVar("holder", 3, "global") @@
    5 :> MkDataSec(".data", 8, <<VarSecInfo(4, 0, 8)>>) @@
    6 :> MkEnum64("E64", 8, <<EnumValue("X", 0)>>)

InitEnum == \E size \in EnumSizes : \E vals \in EnumValueSeqs : Fresh(GraphEnum(size, vals))

SpecEnum == InitEnum /\ [][Next]_vars

----------------------------------------------------------------------------
(* Sessions over every struct within the bounds: a struct S of each size   *)
(* with each sequence of members at rising offsets, the struct Twin that   *)
(* differs from S in where its bitfields lie, and the union U of the same  *)
(* members.                                                                *)

MaxMembers == 2

StructSizes == {4, 5, 12, 16}
MemberNames == <<"a", "b", "c", "d">>

\* char, int and long members at byte offsets, and an int bitfield.
MemberChoices ==
    {[ty |-> t, offset |-> 8 * o, bitfield |-> FALSE] : t \in {1, 2, 3}, o \in {0, 1, 4, 8}}
        \cup {[ty |-> 2, offset |-> 8, bitfield |-> TRUE]}

MemberSeqs ==
    {ms \in UNION {[1..n -> MemberChoices] : n \in 0..MaxMembers} :
        \A i \in 1..(Len(ms) - 1) : ms[i].offset < ms[i + 1].offset}

Members(ms, shift) ==
    [i \in 1..Len(ms) |->
        IF ms[i].bitfield
        THEN BitField(MemberNames[i], ms[i].ty, ms[i].offset + shift, 8)
        ELSE Normal(MemberNames[i], ms[i].ty, ms[i].offset)]

GraphLayout(size, ms) ==
    0 :> MkVoid @@
    1 :> MkInt("char", 8, "char") @@
    2 :> MkInt("int", 32, "signed") @@
    3 :> MkInt("long", 64, "signed") @@
    4 :> MkStruct("S", size, Members(ms, 0)) @@
    5 :> MkStruct("Twin", size, Members(ms, 3)) @@
    6 :> MkUnion("U", size, Members(ms, 0)) @@
    7 :> MkEnum("E", 4, <<EnumValue("A", 0)>>) @@
    8 :> MkVar("s", 4, "global") @@
    9 :> MkDataSec(".data", size, <<VarSecInfo(8, 0, size)>>) @@
    10 :> MkEnum64("E64", 8, <<EnumValue("X", 0)>>)

InitLayout == \E size \in StructSizes : \E ms \in MemberSeqs : Fresh(GraphLayout(size, ms))

SpecLayout == InitLayout /\ [][Next]_vars

----------------------------------------------------------------------------
(* Properties of the session.                                              *)

Count(x, seq) == Cardinality({i \in 1..Len(seq) : seq[i] = x})

StructuredKinds == {"Struct", "Union", "Enum", "Enum64", "DataSec"}

\* C1: over a whole session, and within one call, the definition of a type id
\* is written at most once and its members are scanned at most once, however
\* many paths lead to it.
C1_EmittedOnce ==
    \A t \in Ids(btf) : emit_count[t] <= 1 /\ scan_count[t] <= 1

\* A later call of a session reached struct Bar twice (the section's two
\* variables) after an earlier call had already emitted it.
C1_Witness ==
    /\ pc = "idle" /\ result.st = "ok"
    /\ btf = GraphShared /\ root = 15
    /\ 5 \in processed0
    /\ Count(5, discovered) >= 2
    /\ emit_count[5] = 1 /\ scan_count[5] = 1

\* The ids of requests 1..k, and the 1-based rank of request k's id among them
\* in order of first appearance.
SeenUpTo(k) == {requests[j].id : j \in 1..k}
FirstRequest(id) == CHOOSE k \in 1..Len(requests) :
                        /\ requests[k].id = id
                        /\ \A j \in 1..(k - 1) : requests[j].id # id
RankOf(id) == Cardinality(SeenUpTo(FirstRequest(id)))

\* C2: the Nth distinct anonymous id requested is named "__anon_N", every
\* later request for it is answered with the same name, and two distinct
\* anonymous ids never share a name.
C2_AnonNaming ==
    /\ \A k \in 1..Len(requests) :
          requests[k].name = "__anon_" \o ToString(RankOf(requests[k].id))
    /\ \A j, k \in 1..Len(requests) :
          requests[j].id # requests[k].id => requests[j].name # requests[k].name
    /\ \A t \in DOMAIN anon_types : anon_types[t] = RankOf(t)

\* Three anonymous types were named, and the first of them was asked for
\* again after the third had got its name.
C2_Witness ==
    /\ Cardinality(SeenUpTo(Len(requests))) = 3
    /\ \E j, k \in 1..Len(requests) :
          /\ j < k
          /\ RankOf(requests[j].id) = 3
          /\ RankOf(requests[k].id) = 1
          /\ requests[k].name = "__anon_1"

\* The worklist entries taken so far whose visit emitted: first occurrences
\* that the session had not visited before the call.
RECURSIVE EmissionOrder(_, _)
EmissionOrder(seq, n) ==
    IF n = 0 THEN <<>>
    ELSE IF seq[n] \notin processed0 /\ \A i \in 1..(n - 1) : seq[i] # seq[n]
         THEN Append(EmissionOrder(seq, n - 1), seq[n])
         ELSE EmissionOrder(seq, n - 1)

\* C3: definitions are emitted breadth-first: the root first, then what the
\* root's scan discovered, in discovery order, then what those discovered; the
\* worklist is the not yet taken part of the discovery order.
C3_BreadthFirst ==
    /\ pc = "walking" =>
          /\ dependents = SubSeq(discovered, popped + 1, Len(discovered))
          /\ emitted = EmissionOrder(discovered, popped)
    /\ (pc = "idle" /\ result.st = "ok") =>
          /\ popped = Len(discovered)
          /\ emitted = EmissionOrder(discovered, popped)
          /\ [i \in 1..Len(result.text) |-> result.text[i].id] = emitted
    /\ (emitted # <<>>) => emitted[1] = root

\* A finished walk from struct Foo in which the anonymous struct, found while
\* scanning the anonymous union, is emitted after the enum found later in Foo.
C3_Witness ==
    /\ pc = "idle" /\ result.st = "ok"
    /\ btf = GraphShared
    /\ emitted = <<7, 5, 8, 6, 9>>

\* C4: a walk starts only from a Struct, Union, Enum, Enum64 or DataSec root;
\* a call on any other root fails at once, returns no text, and leaves the
\* visited-set and the registry as they were.
C4_TerminalRoot ==
    /\ pc = "walking" => btf[root].kind \in StructuredKinds
    /\ (pc = "idle" /\ result.st # "none" /\ btf[root].kind \notin StructuredKinds) =>
          /\ result.st = "err"
          /\ result.text = <<>>
          /\ popped = 0 /\ discovered = <<>> /\ emitted = <<>>
          /\ processed = processed0
          /\ anon_types = anon0

\* A call on a typedef of a struct failed in a session that had already
\* visited types and named anonymous ones.
C4_Witness ==
    /\ pc = "idle" /\ result.st = "err"
    /\ btf[root].kind = "Typedef"
    /\ processed # {}
    /\ DOMAIN anon_types # {}
    /\ processed = processed0 /\ anon_types = anon0

\* C6 (as claimed): when a call fails, no text is returned, and a later call
\* that reuses the visited-set still returns the definition of every type
\* whose text the failed call discarded: once a call has succeeded, every
\* definition written so far has been returned to the caller.
C6_FailureIndependent ==
    /\ result.st \in {"err", "panic"} => result.text = <<>>
    /\ (pc = "idle" /\ result.st = "ok") =>
          \A t \in Ids(btf) : emit_count[t] >= 1 => returned[t] >= 1

\* C7 (as claimed): no call aborts; every call returns text or an error.
C7_NeverPanics == pc # "panicked" /\ result.st # "panic"

\* C8 (as claimed): an enum without enumerators is never emitted; its visit
\* fails.
C8_EmptyEnumFails ==
    \A t \in Ids(btf) :
        (btf[t].kind = "Enum" /\ btf[t].values = <<>>) =>
            /\ emit_count[t] = 0
            /\ (pc = "idle" /\ root = t /\ result.st # "none" /\ t \notin processed0)
                   => result.st = "err"

----------------------------------------------------------------------------
(* Layout of the emitted text.                                             *)

\* Every block written in the session: in the call under way or returned.
Blocks == {definition[i] : i \in 1..Len(definition)} \cup out

IsPacked(b) == b.repr = "#[repr(C, packed)]"

RoundUp(x, a) == ((x + a - 1) \div a) * a

\* The alignment a field is placed at.
FieldAlign(b, i) == IF IsPacked(b) \/ b.fields[i].al = 0 THEN 1 ELSE b.fields[i].al

\* The byte offset of the i-th emitted field when the fields are placed in
\* order, each at the next multiple of its alignment.
RECURSIVE FieldPos(_, _)
FieldPos(b, i) ==
    IF i = 1 THEN 0
    ELSE RoundUp(FieldPos(b, i - 1) + b.fields[i - 1].sz, FieldAlign(b, i))

RECURSIVE MaxFieldAlign(_, _)
MaxFieldAlign(b, i) ==
    IF i > Len(b.fields) THEN 1 ELSE Max(FieldAlign(b, i), MaxFieldAlign(b, i + 1))

\* The size of the emitted struct: the end of its last field, rounded up to
\* the largest alignment among its fields.
EmittedSize(b) ==
    LET n == Len(b.fields)
        end == IF n = 0 THEN 0 ELSE FieldPos(b, n) + b.fields[n].sz
    IN  RoundUp(end, MaxFieldAlign(b, 1))

StructBlocks == {b \in Blocks : b.kind = "struct" /\ btf[b.id].kind = "Struct"}

\* C5: for every struct whose emission succeeds, placing the emitted fields
\* in order puts every non-bitfield member at its declared byte offset and
\* yields the declared total size.
C5_LayoutReproduced ==
    \A b \in StructBlocks :
        /\ \A i \in 1..Len(b.fields) :
              b.fields[i].src # 0 =>
                  FieldPos(b, i) * 8 = btf[b.id].members[b.fields[i].src].offset
        /\ EmittedSize(b) = btf[b.id].size

\* The spec's example is laid out as it says: size 12, 4-byte fields at 0 and
\* 8, one 4-byte padding field between them, field bytes summing to 12.
C5_ExampleEmitted ==
    \E b \in StructBlocks :
        /\ btf[b.id].size = 12
        /\ Len(b.fields) = 3
        /\ b.fields[1].sz = 4 /\ b.fields[1].src = 1
        /\ b.fields[2].name = "__pad_4" /\ b.fields[2].sz = 4
        /\ b.fields[3].sz = 4 /\ b.fields[3].src = 2
        /\ btf[b.id].members[2].offset = 64

----------------------------------------------------------------------------
(* Enums.                                                                  *)

EnumBlocks == {b \in Blocks : b.kind = "enum"}
ReprSizes == {1, 2, 4, 8, 16}

\* The enums C9 is about: kind Enum with at least one enumerator.
Enums == {t \in Ids(btf) : btf[t].kind = "Enum" /\ Len(btf[t].values) >= 1
                            /\ \A i \in 1..Len(btf[t].values) : btf[t].values[i].name # ""}

\* C9: an enum with at least one enumerator and declared size in
\* {1,2,4,8,16} is emitted signed iff some value is negative, with one
\* enumerator per declared value in order with its literal discriminant, the
\* first one marked as the default; any other declared size fails.
C9_EnumEmission ==
    /\ \A b \in EnumBlocks :
          b.id \in Enums =>
              LET vs == btf[b.id].values
                  neg == \E i \in 1..Len(vs) : vs[i].value < 0
              IN  /\ btf[b.id].size \in ReprSizes
                  /\ b.repr = "#[repr(" \o (IF neg THEN "i" ELSE "u")
                                \o ToString(8 * btf[b.id].size) \o ")]"
                  /\ Len(b.fields) = Len(vs)
                  /\ \A i \in 1..Len(vs) :
                        /\ b.fields[i].name = vs[i].name
                        /\ b.fields[i].ty = ToString(vs[i].value)
                        /\ (b.fields[i].attr = "#[default]") <=> (i = 1)
    /\ \A t \in Enums :
          /\ (t \in processed /\ btf[t].size \in ReprSizes) => emit_count[t] = 1
          /\ btf[t].size \notin ReprSizes =>
                /\ emit_count[t] = 0
                /\ (t \in processed \ processed0 /\ pc = "idle") => result.st = "err"

\* {A = 0, B = -1} has been emitted and returned, signed.
C9_Witness ==
    /\ pc = "idle"
    /\ \E b \in out :
          /\ b.kind = "enum" /\ b.repr = "#[repr(i32)]"
          /\ Len(b.fields) = 2
          /\ btf[b.id].values[1].value = 0 /\ btf[b.id].values[2].value = -1
          /\ b.fields[1].attr = "#[default]"

\* An enum of size 3 was the root of a call, which failed.
C9_BadSizeFailed ==
    /\ pc = "idle" /\ root \in Enums /\ btf[root].size = 3
    /\ result.st = "err" /\ root \in processed \ processed0

----------------------------------------------------------------------------
(* Packed detection.                                                       *)

Composites == {t \in Ids(btf) : btf[t].kind \in {"Struct", "Union"}}

\* Some non-bitfield member's bit offset is not a multiple of 8 times the
\* member's own alignment.
SomeNormalMemberMisaligned(t) ==
    \E i \in 1..Len(btf[t].members) :
        /\ ~btf[t].members[i].bitfield
        /\ btf[t].members[i].offset % (8 * Alignment(btf, btf[t].members[i].ty)) # 0

\* C10: is_struct_packed is true for a struct iff its size is not a multiple
\* of its alignment or some non-bitfield member is misaligned; where the
\* bitfields lie does not change it; it is false for every union; and the
\* emitted representation is packed exactly when it is true.
C10_PackedIff ==
    /\ \A t \in Composites :
          is_struct_packed(btf, t) =
              Ok(/\ btf[t].kind = "Struct"
                 /\ \/ btf[t].size % Alignment(btf, t) # 0
                    \/ SomeNormalMemberMisaligned(t))
    /\ \A t, u \in Composites :
          (/\ btf[t].kind = "Struct" /\ btf[u].kind = "Struct"
           /\ btf[t].size = btf[u].size
           /\ Len(btf[t].members) = Len(btf[u].members)
           /\ \A i \in 1..Len(btf[t].members) :
                 /\ btf[t].members[i].ty = btf[u].members[i].ty
                 /\ btf[t].members[i].bitfield = btf[u].members[i].bitfield
                 /\ ~btf[t].members[i].bitfield =>
                        btf[t].members[i].offset = btf[u].members[i].offset)
          => is_struct_packed(btf, t) = is_struct_packed(btf, u)
    /\ \A b \in Blocks :
          b.id \in Composites => (IsPacked(b) <=> is_struct_packed(btf, b.id).val)

\* A struct with a bitfield between aligned members has been emitted unpacked,
\* and its twin, whose bitfield lies elsewhere, too.
C10_Witness ==
    \E b, c \in out :
        /\ b.id # c.id
        /\ btf[b.id].kind = "Struct" /\ btf[c.id].kind = "Struct"
        /\ ~IsPacked(b) /\ ~IsPacked(c)
        /\ Len(btf[b.id].members) = 2
        /\ btf[b.id].members[2].bitfield /\ btf[c.id].members[2].bitfield
        /\ btf[b.id].members[2].offset # btf[c.id].members[2].offset

----------------------------------------------------------------------------
(* Sessions over every struct T, and union V, whose members are drawn from *)
(* a palette of field types: scalars, a boolean, an enum behind a typedef, *)
(* a struct behind a qualifier, a struct behind a pointer, arrays, and an  *)
(* Enum64.  The members of T lie at their natural offsets.                 *)

MaxFields == 2

FieldsBase ==
    0 :> MkVoid @@
    1 :> MkInt("int", 32, "signed") @@
    2 :> MkInt("_Bool", 8, "bool") @@
    3 :> MkEnum("Color", 4, <<EnumValue("R", 0), EnumValue("G", 1)>>) @@
    5 :> MkPtr(6) @@
    6 :> MkStruct("Pointee", 32,
            <<BitField("a", 1, 0, 3), Normal("next", 5, 64), Normal("flag", 2, 128),
              BitField("z", 1, 192, 8)>>) @@
    7 :> MkTypedef("color_t", 3) @@
    8 :> MkConst(6) @@
    9 :> MkArray(1, 33) @@
    10 :> MkArray(7, 32) @@
    11 :> MkEnum64("Big", 8, <<EnumValue("X", 0)>>)

\* The member types a field is drawn from; 0 stands for an int bitfield.
FieldChoices == {0, 1, 2, 5, 7, 8, 9, 10, 11}
FieldNames == <<"a", "type", "c", "d">>

FieldSeqs == UNION {[1..n -> FieldChoices] : n \in 0..MaxFields}

FieldSize(c) == IF c = 0 THEN 1 ELSE size_of_type(FieldsBase, c).val
FieldAlignment(c) == IF c = 0 THEN 1 ELSE Alignment(FieldsBase, c)

\* The byte offset of the i-th member of T.
RECURSIVE NaturalOffset(_, _)
NaturalOffset(fs, i) ==
    IF i = 1 THEN 0
    ELSE RoundUp(NaturalOffset(fs, i - 1) + FieldSize(fs[i - 1]), FieldAlignment(fs[i]))

MaxOf(S) == CHOOSE m \in S : \A x \in S : x <= m

\* The alignment of T as Alignment computes it: a bitfield counts as its int.
NaturalAlign(fs) ==
    MaxOf({1} \cup {IF fs[i] = 0 THEN 4 ELSE FieldAlignment(fs[i]) : i \in 1..Len(fs)})

NaturalSize(fs) ==
    LET n == Len(fs)
        end == IF n = 0 THEN 0 ELSE NaturalOffset(fs, n) + FieldSize(fs[n])
    IN  RoundUp(end, NaturalAlign(fs))

FieldMembers(fs, is_struct) ==
    [i \in 1..Len(fs) |->
        LET off == IF is_struct THEN 8 * NaturalOffset(fs, i) ELSE 0
        IN  IF fs[i] = 0 THEN BitField(FieldNames[i], 1, off, 8)
            ELSE Normal(FieldNames[i], fs[i], off)]

GraphFields(fs) ==
    FieldsBase @@
    12 :> MkStruct("T", NaturalSize(fs), FieldMembers(fs, TRUE)) @@
    13 :> MkUnion("V", RoundUp(MaxOf({1} \cup {FieldSize(fs[i]) : i \in 1..Len(fs)}), NaturalAlign(fs)),
                  FieldMembers(fs, FALSE)) @@
    14 :> MkVar("match", 12, "global") @@
    15 :> MkDataSec(".data", NaturalSize(fs), <<VarSecInfo(14, 0, NaturalSize(fs))>>)

InitFields == \E fs \in FieldSeqs : Fresh(GraphFields(fs))

SpecFields == InitFields /\ [][Next]_vars

----------------------------------------------------------------------------
(* Fields that are not valid for every bit pattern.                        *)

CompositeBlocks ==
    {b \in Blocks : b.kind \in {"struct", "union"} /\ btf[b.id].kind \in {"Struct", "Union"}}

HasPrefix(s, p) == Len(s) >= Len(p) /\ SubSeq(s, 1, Len(p)) = p

\* The member that the i-th emitted field of b came from.
MemberOf(b, i) == btf[b.id].members[b.fields[i].src]

\* The member's type resolves, through qualifiers and typedefs, to an enum
\* or to a boolean-encoded integer.
ResolvesToUnsafe(t) ==
    LET r == SkipModsAndTypedefs(btf, t)
    IN  \/ btf[r].kind \in {"Enum", "Enum64"}
        \/ btf[r].kind = "Int" /\ btf[r].enc = "bool"

MemberFields(b) == {i \in 1..Len(b.fields) : b.fields[i].src # 0}

\* C11: in every emitted struct or union a field of enum or boolean type is
\* declared with the MaybeUninit wrapper and initialized through it, and a
\* struct with such a field has no derived Default but an explicit one that
\* initializes the field.
C11_UnsafeWrapped ==
    \A b \in CompositeBlocks :
        \A i \in MemberFields(b) :
            ResolvesToUnsafe(MemberOf(b, i).ty) =>
                /\ HasPrefix(b.fields[i].ty, "std::mem::MaybeUninit<")
                /\ \A j \in 1..Len(b.inits) :
                      b.inits[j].name = b.fields[i].name =>
                          HasPrefix(b.inits[j].expr, "std::mem::MaybeUninit::new(")
                /\ b.kind = "struct" =>
                      /\ b.derive = "#[derive(Debug, Copy, Clone)]"
                      /\ b.impl_default
                      /\ \E j \in 1..Len(b.inits) : b.inits[j].name = b.fields[i].name

\* The struct { int a; _Bool type; } has been emitted and returned.
C11_Witness ==
    \E b \in out \cap CompositeBlocks :
        /\ b.kind = "struct" /\ Len(b.fields) = 2
        /\ b.fields[1].src = 1 /\ b.fields[2].src = 2
        /\ MemberOf(b, 1).ty = 1 /\ MemberOf(b, 2).ty = 2
        /\ b.fields[2].ty = "std::mem::MaybeUninit<bool>"
        /\ b.impl_default

----------------------------------------------------------------------------
(* The output of a session.                                                *)

\* Every call so far that visited a type has returned its text: no id sits
\* in the visited set without a returned definition.
AllReturned == pc = "idle" /\ \A t \in processed : returned[t] >= 1

\* The struct, union or enum that the type t names, directly, as an array
\* element, as a pointee, or behind qualifiers and typedefs; -1 if none.
RECURSIVE NamedTarget(_)
NamedTarget(t) ==
    CASE btf[t].kind \in {"Struct", "Union", "Enum", "Enum64"} -> t
      [] btf[t].kind \in {"Ptr", "Array", "Typedef", "Const", "Volatile", "Restrict",
                          "TypeTag", "Var"} -> NamedTarget(btf[t].ref)
      [] OTHER -> -1

\* The text that declares the type t when its target is called `name`.
RECURSIVE DeclText(_, _)
DeclText(t, name) ==
    CASE btf[t].kind \in {"Struct", "Union", "Enum", "Enum64"} -> name
      [] btf[t].kind = "Ptr" -> "*mut " \o DeclText(btf[t].ref, name)
      [] btf[t].kind = "Array" ->
            "[" \o DeclText(btf[t].ref, name) \o "; " \o ToString(btf[t].nelems) \o "]"
      [] OTHER -> DeclText(btf[t].ref, name)

\* The type of the member or variable the i-th emitted field of b came from.
FieldTypeOf(b, i) ==
    IF btf[b.id].kind = "DataSec" THEN btf[b.id].vars[b.fields[i].src].ty
    ELSE btf[b.id].members[b.fields[i].src].ty

\* C12: after successful calls that share the visited set and the registry,
\* every struct, union or enum named by the type of an emitted field has its
\* definition in the output exactly once, under the name the field uses.
C12_SelfContained ==
    AllReturned =>
        \A b \in out :
            b.kind \in {"struct", "union"} =>
                \A i \in MemberFields(b) :
                    LET r == NamedTarget(FieldTypeOf(b, i))
                    IN  r # -1 =>
                            /\ returned[r] = 1
                            /\ \E c \in out :
                                  /\ c.id = r
                                  /\ \A d \in out : d.id = r => d = c
                                  /\ LET text == DeclText(FieldTypeOf(b, i), c.name)
                                     IN  b.fields[i].ty \in
                                            {text, "std::mem::MaybeUninit<" \o text \o ">"}

\* T with a pointer to Pointee has been returned, and Pointee with it.
C12_Witness ==
    /\ AllReturned
    /\ \E b, c \in out :
          /\ b.name = "T" /\ c.name = "Pointee"
          /\ \E i \in MemberFields(b) : b.fields[i].ty = "*mut Pointee"

----------------------------------------------------------------------------
(* Reserved words.                                                         *)

\* The declared name of the member or variable behind the i-th field of b.
SourceName(b, i) ==
    IF btf[b.id].kind = "DataSec" THEN btf[btf[b.id].vars[b.fields[i].src].ty].name
    ELSE btf[b.id].members[b.fields[i].src].name

Escaped(n) == IF n \in reserved THEN "r#" \o n ELSE n

\* C13: every explicit name that is a reserved word is escaped where it is
\* emitted as a field or variable identifier, for members and for section
\* variables, and as the name of an explicitly named node; every other name
\* is emitted unchanged.
C13_ReservedEscaped ==
    \A b \in Blocks :
        b.kind \in {"struct", "union"} =>
            /\ \A i \in MemberFields(b) :
                  SourceName(b, i) # "" => b.fields[i].name = Escaped(SourceName(b, i))
            /\ (btf[b.id].kind # "DataSec" /\ btf[b.id].name # "") =>
                  b.name = Escaped(btf[b.id].name)

\* The escaping does reach struct members: a member named `type` has been
\* emitted as r#type.
C13_MemberEscaped ==
    \E b \in out \cap CompositeBlocks :
        \E i \in MemberFields(b) : MemberOf(b, i).name = "type" /\ b.fields[i].name = "r#type"

----------------------------------------------------------------------------
(* required_padding as a function of its arguments.                        *)

MaxOffset == 16

\* The types of the session that have a natural alignment.
AlignedTypes == {t \in Ids(btf) : Alignment(btf, t) # 0}

\* C14: required_padding fails when current > required; otherwise, with
\* a = 1 if packed and a = min(natural alignment, 4) if not, it is 0 when
\* current rounded up to a multiple of a equals required, and
\* required - current in every other case.  The session's types do not
\* change, so the arguments are gone through before the first visit.
C14_RequiredPadding ==
    (pc = "idle" /\ processed = {} /\ result.st = "none") =>
        \A current, required \in 0..MaxOffset :
            \A t \in AlignedTypes :
                \A packed \in BOOLEAN :
                    LET p == required_padding(btf, current, required, t, packed)
                        a == IF packed THEN 1 ELSE Min(Alignment(btf, t), 4)
                    IN  IF current > required THEN p.st = "err"
                        ELSE IF RoundUp(current, a) = required THEN p = Ok(0)
                        ELSE p = Ok(required - current)

\* struct { int a; long b; } of size 16 has been emitted with four bytes of
\* padding before b: offset 4 is a multiple of min(8, 4), but not the
\* required offset 8.
C14_Witness ==
    \E b \in out \cap CompositeBlocks :
        /\ Len(b.fields) = 3
        /\ b.fields[1].src = 1 /\ b.fields[1].sz = 4
        /\ b.fields[2].name = "__pad_4" /\ b.fields[2].sz = 4
        /\ b.fields[3].src = 2 /\ b.fields[3].sz = 8 /\ MemberOf(b, 3).offset = 64

----------------------------------------------------------------------------
(* Derived and explicit defaults.                                          *)

\* Some non-bitfield member of t resolves to a pointer, to an enum or a
\* boolean, or to an array of more than 32 elements.
NeedsExplicitDefault(t) ==
    \E i \in 1..Len(btf[t].members) :
        /\ ~btf[t].members[i].bitfield
        /\ LET r == SkipModsAndTypedefs(btf, btf[t].members[i].ty)
           IN  \/ btf[r].kind = "Ptr"
               \/ ResolvesToUnsafe(r)
               \/ btf[r].kind = "Array" /\ btf[r].nelems > 32

\* C15: an emitted struct has the explicit default iff one of its
\* non-bitfield fields is a pointer, unsafe, or an array longer than 32, and
\* the derived default otherwise; an emitted union always has the explicit
\* default and the opaque Debug.
C15_ExplicitDefaultIff ==
    \A b \in CompositeBlocks :
        IF b.kind = "struct"
        THEN /\ b.impl_default <=> NeedsExplicitDefault(b.id)
             /\ b.derive = IF NeedsExplicitDefault(b.id)
                           THEN "#[derive(Debug, Copy, Clone)]"
                           ELSE "#[derive(Debug, Default, Copy, Clone)]"
             /\ ~b.impl_debug
        ELSE /\ b.impl_default /\ b.impl_debug
             /\ b.derive = "#[derive(Copy, Clone)]"

\* T with a pointer and no other field has been returned with the explicit
\* default, and the union V with its own.
C15_Witness ==
    \E b, c \in out \cap CompositeBlocks :
        /\ b.name = "T" /\ b.impl_default
        /\ Len(btf[b.id].members) = 1 /\ btf[b.id].members[1].ty = 5
        /\ c.name = "V" /\ c.kind = "union" /\ c.impl_default /\ c.impl_debug

----------------------------------------------------------------------------
(* What a visit schedules.                                                 *)

\* The struct, union, enum or section behind the type t: qualifiers,
\* typedefs, variables and array elements are looked through, pointers too
\* when follow_ptr holds; -1 when the branch ends at a scalar.
RECURSIVE StructuredBehind(_, _)
StructuredBehind(t, follow_ptr) ==
    CASE btf[t].kind \in {"Struct", "Union", "Enum", "Enum64", "DataSec"} -> t
      [] btf[t].kind \in {"Array", "Typedef", "Const", "Volatile", "Restrict", "TypeTag",
                          "Var"} -> StructuredBehind(btf[t].ref, follow_ptr)
      [] btf[t].kind = "Ptr" ->
            IF follow_ptr THEN StructuredBehind(btf[t].ref, follow_ptr) ELSE -1
      [] OTHER -> -1

\* The types whose dependents the emitted node e has scanned, in order: the
\* non-bitfield members of a composite, the non-static variables of a section.
ScannedTypes(e) ==
    IF btf[e].kind = "DataSec"
    THEN SelectSeq([i \in 1..Len(btf[e].vars) |-> btf[e].vars[i].ty],
                   LAMBDA v : btf[v].linkage # "static")
    ELSE [i \in 1..Len(SelectSeq(btf[e].members, LAMBDA m : ~m.bitfield)) |->
             SelectSeq(btf[e].members, LAMBDA m : ~m.bitfield)[i].ty]

\* What the nodes emitted so far in this call have appended to the worklist.
RECURSIVE Scheduled(_, _)
Scheduled(i, follow_ptr) ==
    IF i > Len(emitted) THEN <<>>
    ELSE SelectSeq([k \in 1..Len(ScannedTypes(emitted[i])) |->
                       StructuredBehind(ScannedTypes(emitted[i])[k], follow_ptr)],
                   LAMBDA r : r # -1)
         \o Scheduled(i + 1, follow_ptr)

\* C16, as amended: a scalar ends the search branch and schedules nothing; a
\* struct, union or enum that a member reaches through pointers, qualifiers,
\* typedefs and array elements is appended to the worklist.
C16_PointersFollowed ==
    discovered # <<>> => Tail(discovered) = Scheduled(1, TRUE)

\* C16, as stated: a pointer ends the search branch, and what lies behind it
\* is not appended.
C16_PointersTerminate ==
    discovered # <<>> => Tail(discovered) = Scheduled(1, FALSE)

\* T with a pointer to Pointee has been visited and Pointee appended.
C16_Witness ==
    /\ root = 12 /\ emitted # <<>> /\ emitted[1] = 12
    /\ \E i \in 1..Len(btf[12].members) : btf[12].members[i].ty = 5
    /\ \E k \in 2..Len(discovered) : discovered[k] = 6

----------------------------------------------------------------------------
(* Enum64.                                                                 *)

\* C17: an Enum64, as the root or as a dependent, is dispatched to the enum
\* emitter and emitted like an Enum; reaching it never makes the walk fail
\* as an unsupported kind.
C17_Enum64Dispatched ==
    /\ result.val # "encountered unsupported type"
    /\ (pc = "idle" /\ btf[root].kind = "Enum64" /\ result.st # "none") =>
          /\ result.st = "ok"
          /\ \E b \in out : b.id = root /\ b.kind = "enum" /\ b.repr = "#[repr(u64)]"

----------------------------------------------------------------------------
(* Sessions over every section within the bounds: variables of scalar type *)
(* at offsets their alignment allows, variables of the struct P, which the *)
(* C source declares packed and may lie at any offset, each of global or   *)
(* static linkage, under a section name with or without the leading dot.   *)

MaxVars == 2

SectionNames == {".data", "data", ""}
VarNames == <<"u", "v", "w", "x">>
VarOffsets == {0, 1, 4, 8}

SectionBase ==
    0 :> MkVoid @@
    1 :> MkInt("char", 8, "char") @@
    2 :> MkInt("int", 32, "signed") @@
    3 :> MkInt("long", 64, "signed") @@
    4 :> MkStruct("P", 8, <<Normal("x", 3, 0)>>) @@
    5 :> MkEnum("E", 4, <<EnumValue("A", 0)>>)

VarChoices ==
    {[ty |-> t, offset |-> o, linkage |-> l] :
        t \in {1, 2, 3, 4}, o \in VarOffsets, l \in {"global", "static"}}

\* A scalar lies at a multiple of its alignment; variables do not overlap
\* and are stored in the order of their offsets.
VarSeqs ==
    {vs \in UNION {[1..n -> VarChoices] : n \in 0..MaxVars} :
        /\ \A i \in 1..Len(vs) :
              vs[i].ty # 4 => vs[i].offset % Alignment(SectionBase, vs[i].ty) = 0
        /\ \A i \in 1..(Len(vs) - 1) :
              vs[i].offset + size_of_type(SectionBase, vs[i].ty).val <= vs[i + 1].offset}

VarId(i) == 5 + i
SectionId == 20

GraphSection(name, vs) ==
    SectionBase @@
    [id \in {VarId(i) : i \in 1..Len(vs)} |->
        MkVar(VarNames[id - 5], vs[id - 5].ty, vs[id - 5].linkage)] @@
    SectionId :> MkDataSec(name, 16,
                    [i \in 1..Len(vs) |->
                        VarSecInfo(VarId(i), vs[i].offset,
                                   size_of_type(SectionBase, vs[i].ty).val)]) @@
    21 :> MkEnum64("E64", 8, <<EnumValue("X", 0)>>)

InitSection ==
    \E name \in SectionNames : \E vs \in VarSeqs : Fresh(GraphSection(name, vs))

SpecSection == InitSection /\ [][Next]_vars

----------------------------------------------------------------------------
(* C18: the emission of a data section.                                    *)

SectionBlocks == {b \in Blocks : btf[b.id].kind = "DataSec"}

Indices(seq) == [i \in 1..Len(seq) |-> i]

\* The section's variables that are not static, by index, in order.
Surviving(t) == SelectSeq(Indices(btf[t].vars), LAMBDA i : btf[btf[t].vars[i].ty].linkage # "static")

\* The positions of the fields of b that are not padding, in order.
NamedFields(b) == SelectSeq(Indices(b.fields), LAMBDA i : b.fields[i].src # 0)

\* The struct is named after the section without its first character and
\* has one named field per non-static variable, in order, and no other.
C18_FieldPerVariable ==
    \A b \in SectionBlocks :
        /\ btf[b.id].name = "." \o b.name
        /\ [k \in 1..Len(NamedFields(b)) |-> b.fields[NamedFields(b)[k]].src] = Surviving(b.id)
        /\ \A i \in 1..Len(b.fields) :
              IF b.fields[i].src # 0
              THEN b.fields[i].name = btf[btf[b.id].vars[b.fields[i].src].ty].name
              ELSE i < Len(b.fields) /\ b.fields[i + 1].src # 0 /\ b.fields[i].sz > 0

\* A static variable schedules nothing: what the section put on the worklist
\* is what its non-static variables reach.
C18_StaticSkipped ==
    (emitted # <<>> /\ btf[emitted[1]].kind = "DataSec") =>
        \A k \in 2..Len(discovered) :
            Len(emitted) = 1 =>
                \E i \in 1..Len(Surviving(root)) :
                    StructuredBehind(btf[root].vars[Surviving(root)[i]].ty, TRUE) = discovered[k]

\* A section without a name, or whose name does not start with the
\* separator, fails and is never emitted.
C18_BadNameFails ==
    \A t \in Ids(btf) :
        (btf[t].kind = "DataSec" /\ (btf[t].name = "" \/ SubSeq(btf[t].name, 1, 1) # ".")) =>
            /\ emit_count[t] = 0
            /\ (pc = "idle" /\ root = t /\ t \notin processed0 /\ result.st # "none") =>
                  result.st = "err"

\* Every surviving variable lands at its recorded offset when the emitted
\* fields are placed in order.
C18_RecordedOffsets ==
    \A b \in SectionBlocks :
        \A i \in 1..Len(b.fields) :
            b.fields[i].src # 0 => FieldPos(b, i) = btf[b.id].vars[b.fields[i].src].offset

\* The same, for the sections whose variables all lie at a multiple of the
\* alignment of their type.
C18_AlignedOffsets ==
    \A b \in SectionBlocks :
        (\A k \in 1..Len(btf[b.id].vars) :
            btf[b.id].vars[k].offset % Alignment(btf, btf[b.id].vars[k].ty) = 0) =>
            \A i \in 1..Len(b.fields) :
                b.fields[i].src # 0 => FieldPos(b, i) = btf[b.id].vars[b.fields[i].src].offset

\* C18: a data section becomes a struct named after the section without its
\* first character, with one named field per non-static variable, in order,
\* padded so that every surviving variable lands at its recorded offset;
\* static variables give no field and no dependent; a section without a name
\* or without the leading separator fails.
C18_DatasecEmission ==
    /\ C18_FieldPerVariable
    /\ C18_StaticSkipped
    /\ C18_BadNameFails
    /\ C18_RecordedOffsets

\* A section with a static and a global variable has been emitted.
C18_SectionEmitted ==
    \E b \in out \cap SectionBlocks :
        /\ Len(btf[b.id].vars) = 2
        /\ Len(Surviving(b.id)) = 1
        /\ Len(b.fields) = 2

----------------------------------------------------------------------------
(* C19: termination. visit_type_hierarchy is a sequential loop: once       *)
(* type_definition has begun, the next iteration (or the return) is always *)
(* taken, which is weak fairness of the loop's steps, WF_vars(LoopStep).   *)
(* Whether the caller asks for another definition is left open.            *)

\* Composites that reach themselves and their ancestors through pointers,
\* and a composite (C, B) shared by several members.
GraphCyclic ==
    0 :> MkVoid @@
    1 :> MkInt("int", 32, "signed") @@
    2 :> MkPtr(5) @@
    3 :> MkPtr(6) @@
    4 :> MkPtr(7) @@
    5 :> MkStruct("A", 8, <<Normal("b", 3, 0)>>) @@
    6 :> MkStruct("B", 24, <<Normal("a", 2, 0), Normal("c", 7, 64)>>) @@
    7 :> MkStruct("C", 16, <<Normal("up", 2, 0), Normal("self", 4, 64)>>) @@
    8 :> MkStruct("D", 56, <<Normal("x", 7, 0), Normal("y", 7, 128), Normal("z", 6, 256)>>)

InitLive == \E g \in SessionGraphs \cup {GraphCyclic} : Fresh(g)

LoopStep == VisitComposite \/ VisitEnum \/ VisitDatasec \/ VisitUnsupported \/ Return

\* WF_vars(LoopStep), written out as "infinitely often disabled or infinitely
\* often taken": a loop step is enabled exactly while pc = "walking" (Return
\* on an empty worklist, otherwise the visit of the front type, whatever its
\* kind), every loop step changes pc or popped, and the steps that leave a
\* walking state are the loop steps (StepsAreLoop).
LoopFairness == []<>(pc # "walking") \/ []<><<pc = "walking">>_vars

SpecLive == InitLive /\ [][Next]_vars /\ LoopFairness

StepsAreLoop == [][pc = "walking" => LoopStep]_vars

\* C19: on every finite graph, cycles through pointers and shared dependents
\* included, a walk that has begun ends, a walk that returns has emptied the
\* worklist, and no call emits more definitions than the graph has nodes.
C19_Terminates ==
    /\ [](Len(emitted) <= Cardinality(Ids(btf)))
    /\ []((pc = "idle" /\ result.st = "ok") => dependents = <<>>)
    /\ (pc = "walking") ~> (pc # "walking" /\ dependents = <<>>)

\* The walk from D has ended, with A, B, C and D emitted once each although
\* A, B and C reach one another in a cycle and C is reached three times.
C19_Witness ==
    /\ btf = GraphCyclic
    /\ pc = "idle"
    /\ root = 8
    /\ result.st = "ok"
    /\ dependents = <<>>
    /\ Len(emitted) = 4
    /\ Len(discovered) > 4

----------------------------------------------------------------------------
(* C20: the initializer list of an explicit default.                       *)

DefaultedStructs == {b \in Blocks : b.kind = "struct" /\ b.impl_default}

PadFields(b) == {i \in 1..Len(b.fields) : b.fields[i].src = 0}

\* C20: a struct emitted with an explicit default has one initializer per
\* emitted field, padding included, in the same order and under the same
\* names; the padding fields of one struct have pairwise distinct names.
C20_InitializersMatchFields ==
    /\ \A b \in DefaultedStructs :
          /\ Len(b.inits) = Len(b.fields)
          /\ \A i \in 1..Len(b.fields) : b.inits[i].name = b.fields[i].name
    /\ \A b \in Blocks :
          \A i, j \in PadFields(b) : b.fields[i].name = b.fields[j].name => i = j

\* Pointee has been returned with an explicit default: a gap before its
\* pointer and another at its end, both initialized.
C20_Witness ==
    \E b \in out \cap DefaultedStructs :
        /\ b.name = "Pointee"
        /\ [i \in 1..Len(b.inits) |-> b.inits[i].name] = <<"__pad_0", "next", "flag", "__pad_17">>
        /\ [i \in 1..Len(b.fields) |-> b.fields[i].src] = <<0, 2, 3, 0>>

====
